---- MODULE Spec2Model ----
(***************************************************************************)
(* Acts::BoundaryTolerance (Core/include/Acts/Surfaces/BoundaryTolerance   *)
(* .hpp): a variant over six tolerance parameterisations, its named        *)
(* constructors, classification predicates, accessors and evaluation.      *)
(*                                                                         *)
(* A double is a record [nan, v]: either NaN or the number v.  Comparisons *)
(* follow IEEE-754: every ordered comparison with NaN is false.            *)
(***************************************************************************)
EXTENDS Integers, Sequences, FiniteSets, TLC

\* Tolerances and maxChi2 range over -MaxTol..MaxTol and NaN.
MaxTol == 1
\* Residual components range over -MaxRes..MaxRes.
MaxRes == 1

----------------------------------------------------------------------------
\* double

Num(i) == [nan |-> FALSE, v |-> i]
NaN == [nan |-> TRUE, v |-> 0]
Zero == Num(0)

\* a < b, a <= b, a == b, a > b on doubles
Lt(a, b) == ~a.nan /\ ~b.nan /\ a.v < b.v
Leq(a, b) == ~a.nan /\ ~b.nan /\ a.v <= b.v
Eq(a, b) == ~a.nan /\ ~b.nan /\ a.v = b.v
Gt(a, b) == ~a.nan /\ ~b.nan /\ a.v > b.v

Abs(i) == IF i < 0 THEN -i ELSE i

Doubles == {Num(i) : i \in -MaxTol..MaxTol} \cup {NaN}
Residuals == (-MaxRes..MaxRes) \X (-MaxRes..MaxRes)

\* SquareMatrix2 as <<row0, row1>>
Identity == <<<<1, 0>>, <<0, 1>>>>
\* weights handed to Chi2Bound: identity, diag(4, 1), a non-symmetric
\* matrix and an indefinite one
Weights == {Identity,
            <<<<4, 0>>, <<0, 1>>>>,
            <<<<1, 2>>, <<0, 1>>>>,
            <<<<1, 0>>, <<0, -1>>>>}
\* jacobianOpt: absent (<<>>) or <<J>>; the last Jacobian is singular
Jacobians == {Identity,
              <<<<2, 0>>, <<0, 1>>>>,
              <<<<0, 1>>, <<1, 0>>>>,
              <<<<1, 1>>, <<0, 1>>>>,
              <<<<1, 0>>, <<0, 0>>>>}
nullopt == <<>>
JacobianOpts == {nullopt} \cup {<<J>> : J \in Jacobians}

----------------------------------------------------------------------------
\* outcome of a call: a returned value or a thrown exception

Return(v) == [status |-> "ok", value |-> v]
Throw(e) == [status |-> e, value |-> <<>>]

\* std::invalid_argument, std::bad_variant_access
InvalidArgument == "InvalidArgument"
TypeMismatch == "TypeMismatch"
MissingTransform == "MissingTransform"

----------------------------------------------------------------------------
\* the variant alternatives

InfiniteParams == [alt |-> "InfiniteParams"]
NoneParams == [alt |-> "NoneParams"]
AbsoluteBoundParams(tolerance0, tolerance1) ==
  [alt |-> "AbsoluteBoundParams", tolerance0 |-> tolerance0,
   tolerance1 |-> tolerance1]
AbsoluteCartesianParams(tolerance0, tolerance1) ==
  [alt |-> "AbsoluteCartesianParams", tolerance0 |-> tolerance0,
   tolerance1 |-> tolerance1]
AbsoluteEuclideanParams(tolerance) ==
  [alt |-> "AbsoluteEuclideanParams", tolerance |-> tolerance]
\* weight is std::array<double, 4>
Chi2BoundParams(maxChi2, weight) ==
  [alt |-> "Chi2BoundParams", maxChi2 |-> maxChi2, weight |-> weight]

\* variant of weightMatrix that reads the array row by row
weightMatrix_RowMajor(p) ==
  <<<<p.weight[1], p.weight[2]>>, <<p.weight[3], p.weight[4]>>>>

\* Eigen::Map<SquareMatrix2>(weight.data()): column-major view of the array
weightMatrix(p) ==
  <<<<p.weight[1], p.weight[3]>>, <<p.weight[2], p.weight[4]>>>>

\* variant of MapAssign in which element (i, j) goes to data[i + j]
MapAssign_Stride1(m) == <<m[1][1], m[1][2], m[2][2], 0>>

\* variant of MapAssign that fills the array row by row
MapAssign_RowMajor(m) == <<m[1][1], m[1][2], m[2][1], m[2][2]>>

\* tolerance.weightMatrix() = weight: element (i, j) goes to data[i + 2 * j]
MapAssign(m) == <<m[1][1], m[2][1], m[1][2], m[2][2]>>

\* explicit BoundaryTolerance(Variant variant): m_variant{variant}
BoundaryTolerance(variant) == [m_variant |-> variant]

----------------------------------------------------------------------------
\* named constructors

\* variant of Infinite that builds the None alternative
Infinite_AsNone == Return(BoundaryTolerance(NoneParams))

Infinite == Return(BoundaryTolerance(InfiniteParams))

\* variant of None that builds the Infinite alternative
None_AsInfinite == Return(BoundaryTolerance(InfiniteParams))

None == Return(BoundaryTolerance(NoneParams))

\* variant of AbsoluteBound that stores tolerance0 for both axes
AbsoluteBound_FirstOnly(tolerance0, tolerance1) ==
  IF Lt(tolerance0, Zero) \/ Lt(tolerance1, Zero)
  THEN Throw(InvalidArgument)
  ELSE Return(BoundaryTolerance(AbsoluteBoundParams(tolerance0, tolerance0)))

\* variant of AbsoluteBound that stores the tolerances in the other order
AbsoluteBound_Swapped(tolerance0, tolerance1) ==
  IF Lt(tolerance0, Zero) \/ Lt(tolerance1, Zero)
  THEN Throw(InvalidArgument)
  ELSE Return(BoundaryTolerance(AbsoluteBoundParams(tolerance1, tolerance0)))

\* variant of AbsoluteBound that builds the Cartesian alternative
AbsoluteBound_CartesianParams(tolerance0, tolerance1) ==
  IF Lt(tolerance0, Zero) \/ Lt(tolerance1, Zero)
  THEN Throw(InvalidArgument)
  ELSE Return(BoundaryTolerance(
                AbsoluteCartesianParams(tolerance0, tolerance1)))

\* variant of AbsoluteBound that rejects zero as well
AbsoluteBound_RejectsZero(tolerance0, tolerance1) ==
  IF Leq(tolerance0, Zero) \/ Leq(tolerance1, Zero)
  THEN Throw(InvalidArgument)
  ELSE Return(BoundaryTolerance(AbsoluteBoundParams(tolerance0, tolerance1)))

AbsoluteBound(tolerance0, tolerance1) ==
  IF Lt(tolerance0, Zero) \/ Lt(tolerance1, Zero)
  THEN Throw(InvalidArgument)
  ELSE Return(BoundaryTolerance(AbsoluteBoundParams(tolerance0, tolerance1)))

\* variant of AbsoluteCartesian that builds the bound alternative
AbsoluteCartesian_BoundParams(tolerance0, tolerance1) ==
  IF Lt(tolerance0, Zero) \/ Lt(tolerance1, Zero)
  THEN Throw(InvalidArgument)
  ELSE IF Eq(tolerance0, Zero) # Eq(tolerance1, Zero)
  THEN Throw(InvalidArgument)
  ELSE Return(BoundaryTolerance(AbsoluteBoundParams(tolerance0, tolerance1)))

\* variant of AbsoluteCartesian without the zero / non-zero pairing check
AbsoluteCartesian_NoPairing(tolerance0, tolerance1) ==
  IF Lt(tolerance0, Zero) \/ Lt(tolerance1, Zero)
  THEN Throw(InvalidArgument)
  ELSE Return(BoundaryTolerance(
                AbsoluteCartesianParams(tolerance0, tolerance1)))

AbsoluteCartesian(tolerance0, tolerance1) ==
  IF Lt(tolerance0, Zero) \/ Lt(tolerance1, Zero)
  THEN Throw(InvalidArgument)
  ELSE IF Eq(tolerance0, Zero) # Eq(tolerance1, Zero)
  THEN Throw(InvalidArgument)
  ELSE Return(BoundaryTolerance(
                AbsoluteCartesianParams(tolerance0, tolerance1)))

\* variant of AbsoluteEuclidean that stores the magnitude of the tolerance
AbsoluteEuclidean_Magnitude(tolerance) ==
  Return(BoundaryTolerance(AbsoluteEuclideanParams(
    IF tolerance.nan THEN tolerance ELSE Num(Abs(tolerance.v)))))

AbsoluteEuclidean(tolerance) ==
  Return(BoundaryTolerance(AbsoluteEuclideanParams(tolerance)))

\* variant of Chi2Bound that leaves the weight value-initialised
Chi2Bound_DropsWeight(weight, maxChi2) ==
  Return(BoundaryTolerance(Chi2BoundParams(maxChi2, <<0, 0, 0, 0>>)))

\* variant of Chi2Bound that leaves maxChi2 value-initialised
Chi2Bound_DropsMaxChi2(weight, maxChi2) ==
  Return(BoundaryTolerance(Chi2BoundParams(Zero, MapAssign(weight))))

Chi2Bound(weight, maxChi2) ==
  Return(BoundaryTolerance(Chi2BoundParams(maxChi2, MapAssign(weight))))

----------------------------------------------------------------------------
\* private helpers of the class

\* std::holds_alternative<T>(m_variant)
holdsVariant(T, self) == self.m_variant.alt = T

\* variant of getVariant that does not check the active alternative
getVariant_Unchecked(T, self) == Return(self.m_variant)

\* std::get<T>(m_variant): throws std::bad_variant_access on a mismatch
getVariant(T, self) ==
  IF self.m_variant.alt = T THEN Return(self.m_variant)
  ELSE Throw(TypeMismatch)

\* variant of getVariantPtr that never finds the alternative
getVariantPtr_Null(T, self) == <<>>

\* holdsVariant<T>() ? &getVariant<T>() : nullptr, as <<params>> or <<>>
getVariantPtr(T, self) ==
  IF holdsVariant(T, self) THEN <<getVariant(T, self).value>> ELSE <<>>

nullptr == <<>>

----------------------------------------------------------------------------
\* 2x2 algebra

Transpose(m) == <<<<m[1][1], m[2][1]>>, <<m[1][2], m[2][2]>>>>
MatMul(m, n) ==
  <<<<m[1][1] * n[1][1] + m[1][2] * n[2][1],
      m[1][1] * n[1][2] + m[1][2] * n[2][2]>>,
    <<m[2][1] * n[1][1] + m[2][2] * n[2][1],
      m[2][1] * n[1][2] + m[2][2] * n[2][2]>>>>
MatVec(m, r) ==
  <<m[1][1] * r[1] + m[1][2] * r[2], m[2][1] * r[1] + m[2][2] * r[2]>>
Dot(r, q) == r[1] * q[1] + r[2] * q[2]
\* residual^T * M * residual
Quad(r, m) == Dot(r, MatVec(m, r))
\* sqrt(d2) <= t on doubles: sqrt of a negative number is NaN
SqrtLeq(d2, t) == ~t.nan /\ d2 >= 0 /\ t.v >= 0 /\ d2 <= t.v * t.v

----------------------------------------------------------------------------
\* classification predicates

isInfinite(self) == holdsVariant("InfiniteParams", self)
isNone(self) == holdsVariant("NoneParams", self)
hasAbsoluteBound(self, isCartesian) ==
  \/ holdsVariant("AbsoluteBoundParams", self)
  \/ (isCartesian /\ holdsVariant("AbsoluteCartesianParams", self))
hasAbsoluteCartesian(self) == holdsVariant("AbsoluteCartesianParams", self)
hasAbsoluteEuclidean(self) == holdsVariant("AbsoluteEuclideanParams", self)
hasChi2Bound(self) == holdsVariant("Chi2BoundParams", self)

\* bool isCartesian = false
DefaultIsCartesian == FALSE

\* ToleranceMode
Extend == "Extend"
ModeNone == "None"
Shrink == "Shrink"

\* sign of a tolerance: zero -> None, positive -> Extend, else Shrink
SignMode(t) ==
  IF Eq(t, Zero) THEN ModeNone ELSE IF Gt(t, Zero) THEN Extend ELSE Shrink

toleranceMode(self) ==
  IF isInfinite(self) THEN Extend
  ELSE IF isNone(self) THEN ModeNone
  ELSE IF getVariantPtr("AbsoluteBoundParams", self) # nullptr THEN
    LET p == getVariantPtr("AbsoluteBoundParams", self)[1] IN
    IF Eq(p.tolerance0, Zero) /\ Eq(p.tolerance1, Zero) THEN ModeNone
    ELSE Extend
  ELSE IF getVariantPtr("AbsoluteCartesianParams", self) # nullptr THEN
    LET p == getVariantPtr("AbsoluteCartesianParams", self)[1] IN
    IF Eq(p.tolerance0, Zero) /\ Eq(p.tolerance1, Zero) THEN ModeNone
    ELSE Extend
  ELSE IF getVariantPtr("AbsoluteEuclideanParams", self) # nullptr THEN
    SignMode(getVariantPtr("AbsoluteEuclideanParams", self)[1].tolerance)
  ELSE SignMode(getVariantPtr("Chi2BoundParams", self)[1].maxChi2)

----------------------------------------------------------------------------
\* accessors

asAbsoluteBound(self, isCartesian) ==
  IF isCartesian /\ getVariantPtr("AbsoluteCartesianParams", self) # nullptr
  THEN LET c == getVariantPtr("AbsoluteCartesianParams", self)[1] IN
       Return(AbsoluteBoundParams(c.tolerance0, c.tolerance1))
  ELSE getVariant("AbsoluteBoundParams", self)

asAbsoluteCartesian(self) == getVariant("AbsoluteCartesianParams", self)
asAbsoluteEuclidean(self) == getVariant("AbsoluteEuclideanParams", self)
asChi2Bound(self) == getVariant("Chi2BoundParams", self)

\* std::optional<AbsoluteBoundParams>: <<params>> or nullopt, never throws
asAbsoluteBoundOpt(self, isCartesian) ==
  LET r == asAbsoluteBound(self, isCartesian) IN
  Return(IF r.status = "ok" THEN <<r.value>> ELSE nullopt)

----------------------------------------------------------------------------
\* metric and evaluation

hasMetric(self, hasJacobian) ==
  \/ hasAbsoluteEuclidean(self)
  \/ hasChi2Bound(self)
  \/ (hasJacobian /\ hasAbsoluteCartesian(self))

getMetric(self, jacobian) ==
  IF hasChi2Bound(self) THEN
    Return(weightMatrix(getVariantPtr("Chi2BoundParams", self)[1]))
  ELSE IF hasAbsoluteEuclidean(self) /\ jacobian = nullopt THEN
    Return(Identity)
  ELSE IF (hasAbsoluteEuclidean(self) \/ hasAbsoluteCartesian(self))
          /\ jacobian # nullopt THEN
    Return(MatMul(Transpose(jacobian[1]), jacobian[1]))
  ELSE Throw(TypeMismatch)

isTolerated(self, distance, jacobianOpt) ==
  IF isInfinite(self) THEN Return(TRUE)
  ELSE IF isNone(self) THEN Return(distance[1] <= 0 /\ distance[2] <= 0)
  ELSE IF getVariantPtr("AbsoluteBoundParams", self) # nullptr THEN
    LET p == getVariantPtr("AbsoluteBoundParams", self)[1] IN
    Return(Leq(Num(Abs(distance[1])), p.tolerance0)
           /\ Leq(Num(Abs(distance[2])), p.tolerance1))
  ELSE IF getVariantPtr("AbsoluteCartesianParams", self) # nullptr THEN
    IF jacobianOpt = nullopt THEN Throw(MissingTransform)
    ELSE LET p == getVariantPtr("AbsoluteCartesianParams", self)[1]
             c == MatVec(jacobianOpt[1], distance) IN
         Return(Leq(Num(Abs(c[1])), p.tolerance0)
                /\ Leq(Num(Abs(c[2])), p.tolerance1))
  ELSE IF getVariantPtr("AbsoluteEuclideanParams", self) # nullptr THEN
    LET p == getVariantPtr("AbsoluteEuclideanParams", self)[1]
        m == getMetric(self, jacobianOpt).value IN
    Return(SqrtLeq(Quad(distance, m), p.tolerance))
  ELSE
    LET p == getVariantPtr("Chi2BoundParams", self)[1] IN
    Return(Leq(Num(Quad(distance, weightMatrix(p))), p.maxChi2))

----------------------------------------------------------------------------
\* state: variable a holds a constructed instance; b is a copy of a that
\* lives in a nested scope

Vars == {"a", "b"}
Absent == [m_variant |-> [alt |-> "absent"]]
NoCall == [op |-> "start", target |-> "a", args |-> <<>>]

\* threads that evaluate the shared instances, and a thread outside a call
Threads == {"t1", "t2"}
Idle == [pc |-> "idle", op |-> "none", target |-> "a", seen |-> Absent,
         ret |-> Return(<<>>), overlapped |-> FALSE]

VARIABLES
  obj,     \* obj[x]: the BoundaryTolerance held by variable x, or Absent
  origin,  \* origin[x]: the constructor call that produced obj[x]
  call,    \* the last call: [op, target, args]
  ret,     \* its outcome: Return(v) or Throw(e)
  input,   \* <<residual, jacobianOpt>> the threads pass to their calls
  thr      \* thr[t]: position of thread t in its current call

vars == <<obj, origin, call, ret, input, thr>>

Live(x) == obj[x] # Absent

Init ==
  /\ obj = [x \in Vars |-> Absent]
  /\ origin = [x \in Vars |-> NoCall]
  /\ call = NoCall
  /\ ret = Return(<<>>)
  /\ input = <<>>
  /\ thr = [t \in Threads |-> Idle]

\* a = <named constructor>(args): a is (re)bound only if the call returns
Construct(op, args, r) ==
  /\ ~Live("b")
  /\ call' = [op |-> op, target |-> "a", args |-> args]
  /\ ret' = r
  /\ IF r.status = "ok"
     THEN /\ obj' = [obj EXCEPT !["a"] = r.value]
          /\ origin' = [origin EXCEPT !["a"] = call']
     ELSE UNCHANGED <<obj, origin>>
  /\ UNCHANGED <<input, thr>>

MakeInfinite == Construct("Infinite", <<>>, Infinite)
MakeNone == Construct("None", <<>>, None)
MakeAbsoluteBound ==
  \E t0 \in Doubles, t1 \in Doubles :
    Construct("AbsoluteBound", <<t0, t1>>, AbsoluteBound(t0, t1))
MakeAbsoluteCartesian ==
  \E t0 \in Doubles, t1 \in Doubles :
    Construct("AbsoluteCartesian", <<t0, t1>>, AbsoluteCartesian(t0, t1))
MakeAbsoluteEuclidean ==
  \E t \in Doubles :
    Construct("AbsoluteEuclidean", <<t>>, AbsoluteEuclidean(t))
MakeChi2Bound ==
  \E w \in Weights, c \in Doubles :
    Construct("Chi2Bound", <<w, c>>, Chi2Bound(w, c))

\* variant of CopyOf that leaves the copy default-initialised (Infinite)
CopyOf_Default(self) == BoundaryTolerance(InfiniteParams)

\* the defaulted copy constructor: member-wise copy of m_variant
CopyOf(self) == BoundaryTolerance(self.m_variant)

\* BoundaryTolerance b = a (defaulted copy/move construction and assignment)
Copy ==
  /\ Live("a")
  /\ call' = [op |-> "copy", target |-> "b", args |-> <<"a">>]
  /\ ret' = Return(obj["a"])
  /\ obj' = [obj EXCEPT !["b"] = CopyOf(obj["a"])]
  /\ origin' = [origin EXCEPT !["b"] = origin["a"]]
  /\ UNCHANGED <<input, thr>>

\* b goes out of scope (trivial destructor)
EndScope ==
  /\ Live("b")
  /\ call' = [op |-> "destroy", target |-> "b", args |-> <<>>]
  /\ ret' = Return(<<>>)
  /\ obj' = [obj EXCEPT !["b"] = Absent]
  /\ origin' = [origin EXCEPT !["b"] = NoCall]
  /\ UNCHANGED <<input, thr>>

\* variant of Eval in which the call resets the variant of x
Eval_Mutating(x, op, args, r) ==
  /\ Live(x)
  /\ call' = [op |-> op, target |-> x, args |-> args]
  /\ ret' = r
  /\ obj' = [obj EXCEPT ![x] = BoundaryTolerance(NoneParams)]
  /\ UNCHANGED <<origin, input, thr>>

\* a const member function called on x
Eval(x, op, args, r) ==
  /\ Live(x)
  /\ call' = [op |-> op, target |-> x, args |-> args]
  /\ ret' = r
  /\ UNCHANGED <<obj, origin, input, thr>>

CallIsInfinite(x) == Eval(x, "isInfinite", <<>>, Return(isInfinite(obj[x])))
CallIsNone(x) == Eval(x, "isNone", <<>>, Return(isNone(obj[x])))
CallHasAbsoluteBound(x) ==
  \E isCartesian \in BOOLEAN :
    Eval(x, "hasAbsoluteBound", <<isCartesian>>,
         Return(hasAbsoluteBound(obj[x], isCartesian)))
CallHasAbsoluteCartesian(x) ==
  Eval(x, "hasAbsoluteCartesian", <<>>, Return(hasAbsoluteCartesian(obj[x])))
CallHasAbsoluteEuclidean(x) ==
  Eval(x, "hasAbsoluteEuclidean", <<>>, Return(hasAbsoluteEuclidean(obj[x])))
CallHasChi2Bound(x) ==
  Eval(x, "hasChi2Bound", <<>>, Return(hasChi2Bound(obj[x])))
CallToleranceMode(x) ==
  Eval(x, "toleranceMode", <<>>, Return(toleranceMode(obj[x])))
CallAsAbsoluteBound(x) ==
  \E isCartesian \in BOOLEAN :
    Eval(x, "asAbsoluteBound", <<isCartesian>>,
         asAbsoluteBound(obj[x], isCartesian))
CallAsAbsoluteCartesian(x) ==
  Eval(x, "asAbsoluteCartesian", <<>>, asAbsoluteCartesian(obj[x]))
CallAsAbsoluteEuclidean(x) ==
  Eval(x, "asAbsoluteEuclidean", <<>>, asAbsoluteEuclidean(obj[x]))
CallAsChi2Bound(x) == Eval(x, "asChi2Bound", <<>>, asChi2Bound(obj[x]))
CallAsAbsoluteBoundOpt(x) ==
  \E isCartesian \in BOOLEAN :
    Eval(x, "asAbsoluteBoundOpt", <<isCartesian>>,
         asAbsoluteBoundOpt(obj[x], isCartesian))
CallIsTolerated(x) ==
  \E distance \in Residuals, jacobianOpt \in JacobianOpts :
    Eval(x, "isTolerated", <<distance, jacobianOpt>>,
         isTolerated(obj[x], distance, jacobianOpt))
CallHasMetric(x) ==
  \E hasJacobian \in BOOLEAN :
    Eval(x, "hasMetric", <<hasJacobian>>,
         Return(hasMetric(obj[x], hasJacobian)))
CallGetMetric(x) ==
  \E jacobian \in JacobianOpts :
    Eval(x, "getMetric", <<jacobian>>, getMetric(obj[x], jacobian))

Next ==
  \/ MakeInfinite
  \/ MakeNone
  \/ MakeAbsoluteBound
  \/ MakeAbsoluteCartesian
  \/ MakeAbsoluteEuclidean
  \/ MakeChi2Bound
  \/ Copy
  \/ EndScope
  \/ \E x \in Vars :
       \/ CallIsInfinite(x)
       \/ CallIsNone(x)
       \/ CallHasAbsoluteBound(x)
       \/ CallHasAbsoluteCartesian(x)
       \/ CallHasAbsoluteEuclidean(x)
       \/ CallHasChi2Bound(x)
       \/ CallToleranceMode(x)
       \/ CallAsAbsoluteBound(x)
       \/ CallAsAbsoluteCartesian(x)
       \/ CallAsAbsoluteEuclidean(x)
       \/ CallAsChi2Bound(x)
       \/ CallAsAbsoluteBoundOpt(x)
       \/ CallIsTolerated(x)
       \/ CallHasMetric(x)
       \/ CallGetMetric(x)

Spec == Init /\ [][Next]_vars

----------------------------------------------------------------------------
\* concurrent evaluation: a is constructed and copied to b before the threads
\* start; each thread then calls const member functions on a or b, without
\* locking, all with the same residual and jacobianOpt

ConstructorCalls ==
  {[op |-> "Infinite", args |-> <<>>], [op |-> "None", args |-> <<>>]}
  \cup {[op |-> "AbsoluteBound", args |-> <<t0, t1>>] :
          t0 \in Doubles, t1 \in Doubles}
  \cup {[op |-> "AbsoluteCartesian", args |-> <<t0, t1>>] :
          t0 \in Doubles, t1 \in Doubles}
  \cup {[op |-> "AbsoluteEuclidean", args |-> <<t>>] : t \in Doubles}
  \cup {[op |-> "Chi2Bound", args |-> <<w, c>>] :
          w \in Weights, c \in Doubles}

Construction(made) ==
  CASE made.op = "Infinite" -> Infinite
    [] made.op = "None" -> None
    [] made.op = "AbsoluteBound" ->
         AbsoluteBound(made.args[1], made.args[2])
    [] made.op = "AbsoluteCartesian" ->
         AbsoluteCartesian(made.args[1], made.args[2])
    [] made.op = "AbsoluteEuclidean" -> AbsoluteEuclidean(made.args[1])
    [] made.op = "Chi2Bound" -> Chi2Bound(made.args[1], made.args[2])

InitConc ==
  \E made \in ConstructorCalls, distance \in Residuals,
     jacobianOpt \in JacobianOpts :
    LET r == Construction(made)
        c == [op |-> made.op, target |-> "a", args |-> made.args] IN
    /\ r.status = "ok"
    /\ obj = [x \in Vars |-> IF x = "a" THEN r.value ELSE CopyOf(r.value)]
    /\ origin = [x \in Vars |-> c]
    /\ call = c
    /\ ret = r
    /\ input = <<distance, jacobianOpt>>
    /\ thr = [t \in Threads |-> Idle]

\* the member functions the threads call, on the instance a thread read
ThreadOps == {"isTolerated", "hasAbsoluteBound", "getMetric"}
Run(op, self) ==
  CASE op = "isTolerated" -> isTolerated(self, input[1], input[2])
    [] op = "hasAbsoluteBound" ->
         Return(hasAbsoluteBound(self, DefaultIsCartesian))
    [] op = "getMetric" -> getMetric(self, input[2])

\* thread t enters a const member function of x and reads m_variant
Enter(t) ==
  /\ thr[t].pc \in {"idle", "done"}
  /\ \E op \in ThreadOps, x \in Vars :
       thr' = [thr EXCEPT ![t] = [pc |-> "running", op |-> op, target |-> x,
                                  seen |-> obj[x], ret |-> Return(<<>>),
                                  overlapped |-> FALSE]]
  /\ UNCHANGED <<obj, origin, call, ret, input>>

\* the outcome thread t leaves with; overlapped records that another thread
\* was inside a call on the same instance at that moment
Left(t) ==
  [thr[t] EXCEPT !.pc = "done",
                 !.ret = Run(thr[t].op, thr[t].seen),
                 !.seen = Absent,
                 !.overlapped = \E u \in Threads \ {t} :
                                   /\ thr[u].pc = "running"
                                   /\ thr[u].target = thr[t].target]

\* variant of Leave in which the call leaves a NoneParams variant behind
Leave_Writing(t) ==
  /\ thr[t].pc = "running"
  /\ thr' = [thr EXCEPT ![t] = Left(t)]
  /\ obj' = [obj EXCEPT ![thr[t].target] = BoundaryTolerance(NoneParams)]
  /\ UNCHANGED <<origin, call, ret, input>>

\* thread t returns (or throws) from the call; the instance is not written
Leave(t) ==
  /\ thr[t].pc = "running"
  /\ thr' = [thr EXCEPT ![t] = Left(t)]
  /\ UNCHANGED <<obj, origin, call, ret, input>>

NextConc ==
  \E t \in Threads :
    \/ Enter(t)
    \/ Leave(t)

SpecConc == InitConc /\ [][NextConc]_vars

----------------------------------------------------------------------------
\* properties

Ctors == {"Infinite", "None", "AbsoluteBound", "AbsoluteCartesian",
          "AbsoluteEuclidean", "Chi2Bound"}
IsNegative(t) == ~t.nan /\ t.v < 0
IsPositive(t) == ~t.nan /\ t.v > 0
IsZero(t) == ~t.nan /\ t.v = 0
NonNegative(t) == ~t.nan /\ t.v >= 0

\* C1: AbsoluteBound(t0, t1) throws InvalidArgument iff t0 < 0 or t1 < 0;
\* every other call returns an AbsoluteBound instance storing t0 and t1.
C1_AbsoluteBoundValidation ==
  call.op = "AbsoluteBound" =>
    LET t0 == call.args[1]
        t1 == call.args[2] IN
    /\ (ret.status = InvalidArgument) <=> (IsNegative(t0) \/ IsNegative(t1))
    /\ ret.status # InvalidArgument =>
         /\ ret.status = "ok"
         /\ obj["a"] = ret.value
         /\ ret.value.m_variant =
              [alt |-> "AbsoluteBoundParams", tolerance0 |-> t0,
               tolerance1 |-> t1]

\* AbsoluteBound(0, 1) has returned: a pair with exactly one zero is accepted
C1_Witness ==
  /\ call.op = "AbsoluteBound"
  /\ call.args = <<Zero, Num(1)>>
  /\ ret.status = "ok"
  /\ obj["a"].m_variant.tolerance1 = Num(1)

\* C2: AbsoluteCartesian(t0, t1) throws InvalidArgument iff t0 < 0, t1 < 0
\* or exactly one of them is zero; (0, 0) and two positive values are stored.
C2_AbsoluteCartesianValidation ==
  call.op = "AbsoluteCartesian" =>
    LET t0 == call.args[1]
        t1 == call.args[2] IN
    /\ (ret.status = InvalidArgument) <=>
         (IsNegative(t0) \/ IsNegative(t1) \/ (IsZero(t0) # IsZero(t1)))
    /\ ((IsZero(t0) /\ IsZero(t1)) \/ (IsPositive(t0) /\ IsPositive(t1))) =>
         /\ ret.status = "ok"
         /\ obj["a"] = ret.value
         /\ ret.value.m_variant =
              [alt |-> "AbsoluteCartesianParams", tolerance0 |-> t0,
               tolerance1 |-> t1]

\* AbsoluteCartesian(0, 1) has thrown
C2_Witness ==
  /\ call.op = "AbsoluteCartesian"
  /\ call.args = <<Zero, Num(1)>>
  /\ ret.status = InvalidArgument

\* C3: Infinite(), None(), AbsoluteEuclidean(t) and Chi2Bound(weight,
\* maxChi2) never throw and return the named variant holding the arguments
\* unchanged, whatever their sign or structure.
C3_UnvalidatedConstructors ==
  /\ call.op \in {"Infinite", "None", "AbsoluteEuclidean", "Chi2Bound"} =>
       ret.status = "ok" /\ obj["a"] = ret.value
  /\ call.op = "Infinite" => ret.value.m_variant = [alt |-> "InfiniteParams"]
  /\ call.op = "None" => ret.value.m_variant = [alt |-> "NoneParams"]
  /\ call.op = "AbsoluteEuclidean" =>
       ret.value.m_variant =
         [alt |-> "AbsoluteEuclideanParams", tolerance |-> call.args[1]]
  /\ call.op = "Chi2Bound" =>
       /\ ret.value.m_variant.alt = "Chi2BoundParams"
       /\ ret.value.m_variant.maxChi2 = call.args[2]
       /\ weightMatrix(ret.value.m_variant) = call.args[1]

\* Chi2Bound of a non-symmetric weight and a negative maxChi2 has returned
C3_Witness ==
  /\ call.op = "Chi2Bound"
  /\ call.args[1][1][2] # call.args[1][2][1]
  /\ IsNegative(call.args[2])
  /\ ret.status = "ok"
  /\ obj["a"].m_variant.alt = "Chi2BoundParams"

InstanceValid(self) ==
  self.m_variant.alt \in {"AbsoluteBoundParams", "AbsoluteCartesianParams"} =>
    /\ NonNegative(self.m_variant.tolerance0)
    /\ NonNegative(self.m_variant.tolerance1)
    /\ self.m_variant.alt = "AbsoluteCartesianParams" =>
         (IsZero(self.m_variant.tolerance0)
            <=> IsZero(self.m_variant.tolerance1))

\* C4: every existing AbsoluteBound or AbsoluteCartesian instance has
\* tolerance0 >= 0 and tolerance1 >= 0, an AbsoluteCartesian instance has
\* both tolerances zero or both non-zero, and a throwing constructor leaves
\* the instances as they were.
C4_InstancesValidated ==
  [][/\ \A x \in Vars : InstanceValid(obj'[x])
     /\ (call'.op \in Ctors /\ ret'.status # "ok") => obj' = obj]_vars

C6_HasAbsoluteBound ==
  /\ call.op = "hasAbsoluteBound" =>
       LET made == origin[call.target].op IN
       /\ ret.status = "ok"
       /\ ret.value = (\/ made = "AbsoluteBound"
                       \/ (call.args[1] /\ made = "AbsoluteCartesian"))
  /\ call.op = "hasAbsoluteCartesian" =>
       /\ ret.status = "ok"
       /\ ret.value = (origin[call.target].op = "AbsoluteCartesian")

\* hasAbsoluteBound(true) has returned true on an AbsoluteCartesian instance
C6_Witness ==
  /\ call.op = "hasAbsoluteBound"
  /\ call.args = <<TRUE>>
  /\ origin[call.target].op = "AbsoluteCartesian"
  /\ ret.value = TRUE

\* C7: asAbsoluteBound(isCartesian) returns the stored tolerances of an
\* AbsoluteBound instance, those of an AbsoluteCartesian instance when
\* isCartesian is true, and throws TypeMismatch in every other case.
C7_AsAbsoluteBound ==
  call.op = "asAbsoluteBound" =>
    LET made == origin[call.target] IN
    IF \/ made.op = "AbsoluteBound"
       \/ (call.args[1] /\ made.op = "AbsoluteCartesian")
    THEN /\ ret.status = "ok"
         /\ <<ret.value.tolerance0, ret.value.tolerance1>> = made.args
    ELSE ret.status = TypeMismatch

\* asAbsoluteBound(true) has returned the tolerances of AbsoluteCartesian(1, 1)
C7_Witness ==
  /\ call.op = "asAbsoluteBound"
  /\ call.args = <<TRUE>>
  /\ origin[call.target].op = "AbsoluteCartesian"
  /\ origin[call.target].args = <<Num(1), Num(1)>>
  /\ ret.status = "ok"
  /\ ret.value.tolerance0 = Num(1)

\* C8: asAbsoluteBoundOpt(isCartesian) never throws; it is non-empty iff
\* hasAbsoluteBound(isCartesian), its value is then what
\* asAbsoluteBound(isCartesian) returns, and it is empty exactly where
\* asAbsoluteBound(isCartesian) throws.
C8_AsAbsoluteBoundOpt ==
  call.op = "asAbsoluteBoundOpt" =>
    LET self == obj[call.target]
        isCartesian == call.args[1]
        made == origin[call.target] IN
    /\ ret.status = "ok"
    /\ (ret.value # nullopt) <=> hasAbsoluteBound(self, isCartesian)
    /\ (ret.value # nullopt) <=>
         (\/ made.op = "AbsoluteBound"
          \/ (isCartesian /\ made.op = "AbsoluteCartesian"))
    /\ (ret.value = nullopt) <=>
         (asAbsoluteBound(self, isCartesian).status # "ok")
    /\ ret.value # nullopt =>
         asAbsoluteBound(self, isCartesian) = Return(ret.value[1])

\* asAbsoluteBoundOpt(false) has returned empty on an AbsoluteCartesian
\* instance
C8_Witness ==
  /\ call.op = "asAbsoluteBoundOpt"
  /\ call.args = <<FALSE>>
  /\ origin[call.target].op = "AbsoluteCartesian"
  /\ ret = Return(nullopt)

\* C9: toleranceMode() is Extend for Infinite, None for None; for
\* AbsoluteBound and AbsoluteCartesian None if both tolerances are zero and
\* Extend otherwise; for AbsoluteEuclidean and Chi2Bound None, Extend or
\* Shrink as the tolerance (resp. maxChi2) is zero, positive or negative.
C9_ToleranceMode ==
  call.op = "toleranceMode" =>
    LET made == origin[call.target] IN
    /\ ret.status = "ok"
    /\ made.op = "Infinite" => ret.value = Extend
    /\ made.op = "None" => ret.value = ModeNone
    /\ made.op \in {"AbsoluteBound", "AbsoluteCartesian"} =>
         ret.value = IF IsZero(made.args[1]) /\ IsZero(made.args[2])
                     THEN ModeNone ELSE Extend
    /\ made.op \in {"AbsoluteEuclidean", "Chi2Bound"} =>
         LET t == made.args[Len(made.args)] IN
         /\ IsZero(t) => ret.value = ModeNone
         /\ IsPositive(t) => ret.value = Extend
         /\ IsNegative(t) => ret.value = Shrink

\* toleranceMode() has returned Shrink on a Chi2Bound with negative maxChi2
C9_Witness ==
  /\ call.op = "toleranceMode"
  /\ origin[call.target].op = "Chi2Bound"
  /\ IsNegative(origin[call.target].args[2])
  /\ ret.value = Shrink

\* C10: Infinite().isTolerated(residual, jacobianOpt) is true for every
\* residual and every jacobianOpt, present or absent.
C10_InfiniteTolerates ==
  (call.op = "isTolerated" /\ origin[call.target].op = "Infinite") =>
    ret = Return(TRUE)

\* isTolerated has returned true on Infinite() for the largest residual and
\* no Jacobian
C10_Witness ==
  /\ call.op = "isTolerated"
  /\ origin[call.target].op = "Infinite"
  /\ call.args = <<<<MaxRes, MaxRes>>, nullopt>>
  /\ ret.value = TRUE

\* C11: None().isTolerated(residual, jacobianOpt) is true iff residual0 <= 0
\* and residual1 <= 0, whatever jacobianOpt is.
C11_NoneTolerates ==
  (call.op = "isTolerated" /\ origin[call.target].op = "None") =>
    LET residual == call.args[1] IN
    /\ ret.status = "ok"
    /\ ret.value = (residual[1] <= 0 /\ residual[2] <= 0)

\* isTolerated has returned false on None() for the residual (1, 0) with a
\* Jacobian supplied
C11_Witness ==
  /\ call.op = "isTolerated"
  /\ origin[call.target].op = "None"
  /\ call.args[1] = <<1, 0>>
  /\ call.args[2] # nullopt
  /\ ret = Return(FALSE)

\* |x| <= t for an integer x and a double t
AbsWithin(x, t) == ~t.nan /\ x <= t.v /\ -x <= t.v

\* C12: AbsoluteBound(t0, t1).isTolerated(residual, jacobianOpt) is true iff
\* |residual0| <= t0 and |residual1| <= t1, for every jacobianOpt.
C12_AbsoluteBoundTolerates ==
  (call.op = "isTolerated" /\ origin[call.target].op = "AbsoluteBound") =>
    LET residual == call.args[1]
        made == origin[call.target] IN
    /\ ret.status = "ok"
    /\ ret.value = (/\ AbsWithin(residual[1], made.args[1])
                    /\ AbsWithin(residual[2], made.args[2]))

\* isTolerated has returned true on AbsoluteBound(1, 0) for the residual
\* (-1, 0), which lies on the boundary of the tolerance, with a Jacobian that
\* would move it outside
C12_Witness ==
  /\ call.op = "isTolerated"
  /\ origin[call.target] =
       [op |-> "AbsoluteBound", target |-> "a", args |-> <<Num(1), Zero>>]
  /\ call.args = <<<<-1, 0>>, <<<<<<2, 0>>, <<0, 1>>>>>>>>
  /\ ret = Return(TRUE)

\* C13: AbsoluteCartesian(t0, t1).isTolerated(residual, J) with a Jacobian
\* J is true iff |(J * residual)0| <= t0 and |(J * residual)1| <= t1.
C13_AbsoluteCartesianTolerates ==
  (/\ call.op = "isTolerated"
   /\ origin[call.target].op = "AbsoluteCartesian"
   /\ call.args[2] # nullopt) =>
    LET residual == call.args[1]
        J == call.args[2][1]
        made == origin[call.target]
        c0 == J[1][1] * residual[1] + J[1][2] * residual[2]
        c1 == J[2][1] * residual[1] + J[2][2] * residual[2] IN
    /\ ret.status = "ok"
    /\ ret.value = (AbsWithin(c0, made.args[1]) /\ AbsWithin(c1, made.args[2]))

\* isTolerated has returned false on AbsoluteCartesian(1, 1) for the residual
\* (1, 1), which is within (1, 1) in the bound frame but maps to (2, 1)
C13_Witness ==
  /\ call.op = "isTolerated"
  /\ origin[call.target].op = "AbsoluteCartesian"
  /\ origin[call.target].args = <<Num(1), Num(1)>>
  /\ call.args = <<<<1, 1>>, <<<<<<1, 1>>, <<0, 1>>>>>>>>
  /\ ret = Return(FALSE)

\* C14: isTolerated throws iff the instance is AbsoluteCartesian and no
\* Jacobian is supplied, and the error is then MissingTransform; every other
\* call returns a boolean.
C14_MissingTransform ==
  call.op = "isTolerated" =>
    IF origin[call.target].op = "AbsoluteCartesian" /\ call.args[2] = nullopt
    THEN ret = Throw(MissingTransform)
    ELSE ret.status = "ok" /\ ret.value \in BOOLEAN

\* isTolerated has thrown MissingTransform on AbsoluteCartesian(0, 0)
C14_Witness ==
  /\ call.op = "isTolerated"
  /\ origin[call.target].op = "AbsoluteCartesian"
  /\ origin[call.target].args = <<Zero, Zero>>
  /\ call.args[2] = nullopt
  /\ ret.status = MissingTransform

\* C15: AbsoluteEuclidean(t).isTolerated(residual, jacobianOpt) is true iff
\* sqrt(residual^T * M * residual) <= t, with M the identity without a
\* Jacobian and J^T * J with Jacobian J; that is, iff t >= 0 and the squared
\* length of residual (resp. of J * residual) is <= t * t.
C15_AbsoluteEuclideanTolerates ==
  (call.op = "isTolerated" /\ origin[call.target].op = "AbsoluteEuclidean") =>
    LET residual == call.args[1]
        t == origin[call.target].args[1]
        c == IF call.args[2] = nullopt THEN residual
             ELSE LET J == call.args[2][1] IN
                  <<J[1][1] * residual[1] + J[1][2] * residual[2],
                    J[2][1] * residual[1] + J[2][2] * residual[2]>>
        d2 == c[1] * c[1] + c[2] * c[2] IN
    /\ ret.status = "ok"
    /\ ret.value = (~t.nan /\ t.v >= 0 /\ d2 <= t.v * t.v)

\* isTolerated has returned true on AbsoluteEuclidean(1) for the residual
\* (0, 1), whose norm equals the tolerance, under a Jacobian that swaps the
\* axes
C15_Witness ==
  /\ call.op = "isTolerated"
  /\ origin[call.target].op = "AbsoluteEuclidean"
  /\ origin[call.target].args = <<Num(1)>>
  /\ call.args = <<<<0, 1>>, <<<<<<0, 1>>, <<1, 0>>>>>>>>
  /\ ret = Return(TRUE)

\* C16: Chi2Bound(weight, maxChi2).isTolerated(residual, jacobianOpt) is
\* true iff residual^T * weight * residual <= maxChi2, with no factor on
\* maxChi2, for every jacobianOpt.
C16_Chi2BoundTolerates ==
  (call.op = "isTolerated" /\ origin[call.target].op = "Chi2Bound") =>
    LET residual == call.args[1]
        w == origin[call.target].args[1]
        maxChi2 == origin[call.target].args[2]
        chi2 == w[1][1] * residual[1] * residual[1]
                + (w[1][2] + w[2][1]) * residual[1] * residual[2]
                + w[2][2] * residual[2] * residual[2] IN
    /\ ret.status = "ok"
    /\ ret.value = (~maxChi2.nan /\ chi2 <= maxChi2.v)

\* isTolerated has returned false on Chi2Bound(identity, 1) for the residual
\* (1, 1), whose chi2 is 2: within 2 * maxChi2 but not within maxChi2
C16_Witness ==
  /\ call.op = "isTolerated"
  /\ origin[call.target].op = "Chi2Bound"
  /\ origin[call.target].args = <<Identity, Num(1)>>
  /\ call.args[1] = <<1, 1>>
  /\ ret = Return(FALSE)

\* C17: hasMetric(hasJacobian) is false for Infinite, None and AbsoluteBound,
\* equals hasJacobian for AbsoluteCartesian, and is true for
\* AbsoluteEuclidean and Chi2Bound.
C17_HasMetric ==
  call.op = "hasMetric" =>
    LET made == origin[call.target].op IN
    /\ ret.status = "ok"
    /\ made \in {"Infinite", "None", "AbsoluteBound"} => ret.value = FALSE
    /\ made = "AbsoluteCartesian" => ret.value = call.args[1]
    /\ made \in {"AbsoluteEuclidean", "Chi2Bound"} => ret.value = TRUE

\* hasMetric(false) has returned false on an AbsoluteCartesian instance
C17_Witness ==
  /\ call.op = "hasMetric"
  /\ call.args = <<FALSE>>
  /\ origin[call.target].op = "AbsoluteCartesian"
  /\ ret = Return(FALSE)

\* J^T * J, entry by entry
Gram(J) ==
  <<<<J[1][1] * J[1][1] + J[2][1] * J[2][1],
      J[1][1] * J[1][2] + J[2][1] * J[2][2]>>,
    <<J[1][2] * J[1][1] + J[2][2] * J[2][1],
      J[1][2] * J[1][2] + J[2][2] * J[2][2]>>>>

\* C18: getMetric(jacobianOpt) returns the identity for AbsoluteEuclidean
\* without a Jacobian, J^T * J for AbsoluteEuclidean or AbsoluteCartesian
\* with Jacobian J, and the weight given to Chi2Bound whatever jacobianOpt.
C18_GetMetric ==
  call.op = "getMetric" =>
    LET made == origin[call.target]
        jacobian == call.args[1] IN
    /\ (made.op = "AbsoluteEuclidean" /\ jacobian = nullopt) =>
         ret = Return(<<<<1, 0>>, <<0, 1>>>>)
    /\ (made.op \in {"AbsoluteEuclidean", "AbsoluteCartesian"}
        /\ jacobian # nullopt) =>
         ret = Return(Gram(jacobian[1]))
    /\ made.op = "Chi2Bound" => ret = Return(made.args[1])

\* getMetric has returned the non-symmetric weight of a Chi2Bound although a
\* Jacobian other than the identity was supplied
C18_Witness ==
  /\ call.op = "getMetric"
  /\ origin[call.target].op = "Chi2Bound"
  /\ origin[call.target].args[1] = <<<<1, 2>>, <<0, 1>>>>
  /\ call.args = <<<<<<<<2, 0>>, <<0, 1>>>>>>>>
  /\ ret = Return(<<<<1, 2>>, <<0, 1>>>>)

\* C19: getMetric(jacobianOpt) throws TypeMismatch exactly when
\* hasMetric(jacobianOpt is present) is false: for Infinite, None and
\* AbsoluteBound with any jacobianOpt and for AbsoluteCartesian without a
\* Jacobian; whenever hasMetric is true, getMetric returns.
C19_GetMetricMismatch ==
  call.op = "getMetric" =>
    LET self == obj[call.target]
        made == origin[call.target].op
        present == call.args[1] # nullopt IN
    /\ ret.status = IF hasMetric(self, present) THEN "ok" ELSE TypeMismatch
    /\ (ret.status = TypeMismatch) <=>
         (\/ made \in {"Infinite", "None", "AbsoluteBound"}
          \/ (made = "AbsoluteCartesian" /\ ~present))

\* getMetric has thrown TypeMismatch on an AbsoluteCartesian instance
\* without a Jacobian
C19_Witness ==
  /\ call.op = "getMetric"
  /\ origin[call.target].op = "AbsoluteCartesian"
  /\ call.args = <<nullopt>>
  /\ ret = Throw(TypeMismatch)

EvalOps == {"isInfinite", "isNone", "hasAbsoluteBound", "hasAbsoluteCartesian",
            "hasAbsoluteEuclidean", "hasChi2Bound", "toleranceMode",
            "asAbsoluteBound", "asAbsoluteCartesian", "asAbsoluteEuclidean",
            "asChi2Bound", "asAbsoluteBoundOpt", "isTolerated", "hasMetric",
            "getMetric"}

\* the variant and parameters a constructor call leaves in the instance
Constructed(made) ==
  CASE made.op = "Infinite" -> [alt |-> "InfiniteParams"]
    [] made.op = "None" -> [alt |-> "NoneParams"]
    [] made.op = "AbsoluteBound" ->
         [alt |-> "AbsoluteBoundParams", tolerance0 |-> made.args[1],
          tolerance1 |-> made.args[2]]
    [] made.op = "AbsoluteCartesian" ->
         [alt |-> "AbsoluteCartesianParams", tolerance0 |-> made.args[1],
          tolerance1 |-> made.args[2]]
    [] made.op = "AbsoluteEuclidean" ->
         [alt |-> "AbsoluteEuclideanParams", tolerance |-> made.args[1]]
    [] made.op = "Chi2Bound" ->
         [alt |-> "Chi2BoundParams", maxChi2 |-> made.args[2],
          weight |-> <<made.args[1][1][1], made.args[1][2][1],
                       made.args[1][1][2], made.args[1][2][2]>>]

AsConstructed ==
  \A x \in Vars : Live(x) => obj[x].m_variant = Constructed(origin[x])

\* C20: no predicate, accessor, toleranceMode, hasMetric, getMetric or
\* isTolerated call, returning or throwing, changes an instance: after the
\* call every instance has the variant and parameters it was constructed
\* with.
C20_Immutable ==
  [][call'.op \in EvalOps => (obj' = obj /\ AsConstructed')]_vars

\* isTolerated has thrown on a copy of AbsoluteCartesian(1, 1), and the copy
\* and the original still hold (1, 1)
C20_Witness ==
  /\ call.op = "isTolerated"
  /\ call.target = "b"
  /\ ret.status = MissingTransform
  /\ origin["b"].args = <<Num(1), Num(1)>>
  /\ obj["b"].m_variant = AbsoluteCartesianParams(Num(1), Num(1))
  /\ obj["a"] = obj["b"]

C22_ConcurrentEvaluation ==
  /\ AsConstructed
  /\ \A t \in Threads :
       thr[t].pc = "done" =>
         thr[t].ret = Run(thr[t].op,
                          BoundaryTolerance(Constructed(origin[thr[t].target])))

\* t1 has completed isTolerated on a while t2 was inside getMetric on a
C22_Witness ==
  /\ thr["t1"].pc = "done" /\ thr["t1"].op = "isTolerated"
  /\ thr["t1"].target = "a" /\ thr["t1"].overlapped
  /\ thr["t2"].pc = "running" /\ thr["t2"].op = "getMetric"
  /\ thr["t2"].target = "a"
  /\ origin["a"].op = "Chi2Bound"
  /\ thr["t1"].ret = Return(TRUE)

Symmetric(m) == m[1][2] = m[2][1]

\* C23 as stated: every matrix getMetric returns is symmetric, whatever
\* weight a Chi2Bound instance was built from.
C23_MetricSymmetric ==
  (call.op = "getMetric" /\ ret.status = "ok") => Symmetric(ret.value)

\* C23: the matrix getMetric returns for an AbsoluteEuclidean or
\* AbsoluteCartesian instance is symmetric; the one it returns for a
\* Chi2Bound instance is symmetric exactly when the weight supplied to
\* Chi2Bound is.
C23_MetricSymmetricWeight ==
  (call.op = "getMetric" /\ ret.status = "ok") =>
    IF origin[call.target].op = "Chi2Bound"
    THEN Symmetric(ret.value) <=> Symmetric(origin[call.target].args[1])
    ELSE Symmetric(ret.value)

\* getMetric has returned the symmetric weight diag(4, 1) of a Chi2Bound
C23_Witness ==
  /\ call.op = "getMetric"
  /\ origin[call.target].op = "Chi2Bound"
  /\ origin[call.target].args[1] = <<<<4, 0>>, <<0, 1>>>>
  /\ ret = Return(<<<<4, 0>>, <<0, 1>>>>)

\* None() tolerates the residual
NoneTolerates(residual, jacobianOpt) ==
  isTolerated(None.value, residual, jacobianOpt) = Return(TRUE)

\* the magnitude of the residual is within the tolerance the constructor
\* call `made` was given
WithinTolerance(made, residual, jacobianOpt) ==
  LET c == IF jacobianOpt = nullopt THEN residual
           ELSE LET J == jacobianOpt[1] IN
                <<J[1][1] * residual[1] + J[1][2] * residual[2],
                  J[2][1] * residual[1] + J[2][2] * residual[2]>> IN
  CASE made.op = "Infinite" -> TRUE
    [] made.op = "None" -> FALSE
    [] made.op = "AbsoluteBound" ->
         /\ AbsWithin(residual[1], made.args[1])
         /\ AbsWithin(residual[2], made.args[2])
    [] made.op = "AbsoluteCartesian" ->
         /\ jacobianOpt # nullopt
         /\ AbsWithin(c[1], made.args[1])
         /\ AbsWithin(c[2], made.args[2])
    [] made.op = "AbsoluteEuclidean" ->
         LET t == made.args[1] IN
         ~t.nan /\ t.v >= 0 /\ c[1] * c[1] + c[2] * c[2] <= t.v * t.v
    [] made.op = "Chi2Bound" ->
         LET w == made.args[1]
             maxChi2 == made.args[2] IN
         /\ ~maxChi2.nan
         /\ w[1][1] * residual[1] * residual[1]
            + (w[1][2] + w[2][1]) * residual[1] * residual[2]
            + w[2][2] * residual[2] * residual[2] <= maxChi2.v

Det(m) == m[1][1] * m[2][2] - m[1][2] * m[2][1]

\* residual^T * w * residual > 0 for every non-zero residual
PositiveDefinite(w) ==
  /\ w[1][1] > 0
  /\ 4 * w[1][1] * w[2][2] > (w[1][2] + w[2][1]) * (w[1][2] + w[2][1])

\* the Jacobian a Cartesian or Euclidean policy uses is invertible, and the
\* weight of a Chi2Bound policy is positive definite
Regular(made, jacobianOpt) ==
  CASE made.op \in {"AbsoluteCartesian", "AbsoluteEuclidean"} ->
         jacobianOpt = nullopt \/ Det(jacobianOpt[1]) # 0
    [] made.op = "Chi2Bound" -> PositiveDefinite(made.args[1])
    [] OTHER -> TRUE

PositiveSemiDefinite(w) ==
  /\ w[1][1] >= 0
  /\ w[2][2] >= 0
  /\ 4 * w[1][1] * w[2][2] >= (w[1][2] + w[2][1]) * (w[1][2] + w[2][1])

\* C26 as stated: every residual a policy whose toleranceMode() is Shrink
\* tolerates is tolerated by None(), whatever weight a Chi2Bound policy was
\* built from.
C26_ShrinkSubset ==
  (/\ call.op = "isTolerated"
   /\ ret.status = "ok"
   /\ toleranceMode(obj[call.target]) = Shrink
   /\ ret.value) => NoneTolerates(call.args[1], call.args[2])

\* C26: a policy whose toleranceMode() is Shrink and, if it is a Chi2Bound,
\* whose weight is positive semi-definite tolerates no residual; so every
\* residual it tolerates is tolerated by None().
C26_ShrinkToleratesNothing ==
  (/\ call.op = "isTolerated"
   /\ ret.status = "ok"
   /\ toleranceMode(obj[call.target]) = Shrink
   /\ (origin[call.target].op = "Chi2Bound"
         => PositiveSemiDefinite(origin[call.target].args[1])))
    => ~ret.value

\* Chi2Bound(identity, -1), whose mode is Shrink, has rejected the zero
\* residual, which None() tolerates
C26_Witness ==
  /\ call.op = "isTolerated"
  /\ origin[call.target].op = "Chi2Bound"
  /\ origin[call.target].args = <<Identity, Num(-1)>>
  /\ toleranceMode(obj[call.target]) = Shrink
  /\ call.args[1] = <<0, 0>>
  /\ NoneTolerates(call.args[1], call.args[2])
  /\ ret = Return(FALSE)

\* C27: AbsoluteCartesian(t0, t1).isTolerated(residual, identity Jacobian)
\* is the outcome of AbsoluteBound(t0, t1).isTolerated(residual, j) for every
\* j, and asAbsoluteBound(true) on the Cartesian instance returns the
\* parameters of that AbsoluteBound(t0, t1).
C27_CartesianIdentity ==
  (/\ call.op = "isTolerated"
   /\ origin[call.target].op = "AbsoluteCartesian"
   /\ call.args[2] = <<Identity>>) =>
    LET made == origin[call.target]
        bound == AbsoluteBound(made.args[1], made.args[2]) IN
    /\ bound.status = "ok"
    /\ \A j \in JacobianOpts :
         ret = isTolerated(bound.value, call.args[1], j)
    /\ asAbsoluteBound(obj[call.target], TRUE) = Return(bound.value.m_variant)

\* AbsoluteCartesian(1, 1) has tolerated (1, -1) under the identity Jacobian
C27_Witness ==
  /\ call.op = "isTolerated"
  /\ origin[call.target].op = "AbsoluteCartesian"
  /\ origin[call.target].args = <<Num(1), Num(1)>>
  /\ call.args = <<<<1, -1>>, <<Identity>>>>
  /\ ret = Return(TRUE)

\* C28: a residual and Jacobian that a policy tolerates is tolerated by
\* Infinite(); if the policy is AbsoluteBound(t0, t1) it is tolerated by
\* AbsoluteBound(u0, u1) for all u0 >= t0 and u1 >= t1, if it is
\* AbsoluteEuclidean(t) by AbsoluteEuclidean(u) for all u >= t, and if it is
\* Chi2Bound(w, c) by Chi2Bound(w, d) for all d >= c.
C28_Monotone ==
  (call.op = "isTolerated" /\ ret = Return(TRUE)) =>
    LET made == origin[call.target]
        residual == call.args[1]
        jacobianOpt == call.args[2] IN
    /\ isTolerated(Infinite.value, residual, jacobianOpt) = Return(TRUE)
    /\ made.op = "AbsoluteBound" =>
         \A u0 \in Doubles, u1 \in Doubles :
           (Leq(made.args[1], u0) /\ Leq(made.args[2], u1)) =>
             LET wider == AbsoluteBound(u0, u1) IN
             /\ wider.status = "ok"
             /\ isTolerated(wider.value, residual, jacobianOpt) = Return(TRUE)
    /\ made.op = "AbsoluteEuclidean" =>
         \A u \in Doubles :
           Leq(made.args[1], u) =>
             LET wider == AbsoluteEuclidean(u) IN
             /\ wider.status = "ok"
             /\ isTolerated(wider.value, residual, jacobianOpt) = Return(TRUE)
    /\ made.op = "Chi2Bound" =>
         \A d \in Doubles :
           Leq(made.args[2], d) =>
             LET wider == Chi2Bound(made.args[1], d) IN
             /\ wider.status = "ok"
             /\ isTolerated(wider.value, residual, jacobianOpt) = Return(TRUE)

\* AbsoluteBound(0, 1) has tolerated (0, 1); AbsoluteBound(1, 1) is a wider
\* policy
C28_Witness ==
  /\ call.op = "isTolerated"
  /\ origin[call.target].op = "AbsoluteBound"
  /\ origin[call.target].args = <<Num(0), Num(1)>>
  /\ call.args[1] = <<0, 1>>
  /\ ret = Return(TRUE)
  /\ Num(1) \in Doubles

====
